---- MODULE Spec2Model ----
(***************************************************************************)
(* Categorydle solvers: the guess-selection engine of GameDleSolver.py and *)
(* its game subclasses (LolDleSolver, OnePieceDleSolver, Warframedle).     *)
(*                                                                         *)
(* Data representation                                                     *)
(*  - A Python str that the code orders or slices (Warframedle's Release,  *)
(*    OnePieceDle's Debut Arc) is a sequence of one-character strings;     *)
(*    Python's < on str is StrLess (lexicographic by code point).          *)
(*  - A cell of a partial-matchable column is the sequence of its          *)
(*    comma-separated tokens, in the order written: "a, b" is <<"a","b">>. *)
(*    `',' in str(v)` is Len(v) > 1, string equality is equality of the    *)
(*    sequences, and split(',') + strip() is TokenSet.  Cells are taken to *)
(*    be uniformly formatted (one blank after each comma).                 *)
(*  - A row has one column of each kind: yn (yes_or_no), ord (orderable)   *)
(*    and pm (partial_matchable).  In Loldle the pm column is "Range", in  *)
(*    OnePieceDle the ord column is "Debut Arc", the columns those classes *)
(*    special-case; their other columns run the same text as the base      *)
(*    class, which Warframedle exercises.                                  *)
(*  - A score is the pair <<num, den>> standing for num / den, with log2   *)
(*    in fixed point (Log2Scaled); scores are compared by cross            *)
(*    multiplication.                                                      *)
(***************************************************************************)
EXTENDS Integers, Sequences, FiniteSets, TLC

VARIABLES
    game,                   \* get_display_name(): which subclass this solver is
    data,                   \* self.data: the catalog, a sequence of rows
    possible_targets,       \* self.possible_targets: a set of rows (a DataFrame)
    entropy_cache,          \* self.entropy_cache: set of <<guess, ids, score>>
    optimal_first_guesses,  \* self.optimal_first_guesses: None or a string
    pc,                     \* where the session thread is
    pending,                \* futures as_completed has yet to yield: guess -> result
    best_guess,             \* local of the reduction loop
    best_expected_entropy,  \* local of the reduction loop
    call,                   \* the last call that returned: op, arguments, result
    audit,                  \* whether call records the arguments of apply_guess
    file,                   \* optimal_guesses.json as it is on disk
    discovery               \* the locals of discovery_mode and where it is

vars == <<game, data, possible_targets, entropy_cache, optimal_first_guesses,
          pc, pending, best_guess, best_expected_entropy, call, audit, file,
          discovery>>

None == "None"

\* ------------------------------------------------------------------------
\* Bounds of the model

\* rows of a small catalog
NumRows == 3

\* rounds of one discovery session
MaxRounds == 3

\* entries of one feedback dict passed to apply_guess
MaxFeedbackEntries == 2

\* ------------------------------------------------------------------------
\* Python strings

Min(a, b) == IF a < b THEN a ELSE b

\* str(k) for a one-digit k
Digit(k) == <<"0", "1", "2", "3", "4", "5", "6", "7", "8", "9">>[k + 1]

IsDigit(c) == \E k \in 0..9 : c = Digit(k)

\* int(c) for a digit c
DigitValue(c) == CHOOSE k \in 0..9 : c = Digit(k)

\* ord(c) for the characters the catalogs use
CharCode(c) ==
    IF IsDigit(c) THEN 48 + DigitValue(c)
    ELSE CASE c = "-" -> 45
           [] c = "." -> 46
           [] c = "A" -> 65
           [] c = "B" -> 66
           [] c = "U" -> 85

\* Python's s < t on two str
StrLess(s, t) ==
    \E i \in 1..(Min(Len(s), Len(t)) + 1) :
        /\ \A j \in 1..(i - 1) : s[j] = t[j]
        /\ \/ i > Len(s) /\ i <= Len(t)
           \/ i <= Len(s) /\ i <= Len(t) /\ CharCode(s[i]) < CharCode(t[i])

\* the length of the longest prefix of s made of digits: what \d+ consumes
DigitPrefixLen(s) ==
    IF \A i \in 1..Len(s) : IsDigit(s[i])
    THEN Len(s)
    ELSE (CHOOSE i \in 1..Len(s) :
              /\ ~IsDigit(s[i])
              /\ \A j \in 1..(i - 1) : IsDigit(s[j])) - 1

RECURSIVE DecimalValue(_)
\* int(digits)
DecimalValue(digits) ==
    IF digits = <<>> THEN 0
    ELSE 10 * DecimalValue(SubSeq(digits, 1, Len(digits) - 1))
         + DigitValue(digits[Len(digits)])

\* OnePieceDleSolver._extract_arc_number: re.match(r'(\d+)\.', s)
_extract_arc_number(arc_string) ==
    LET k == DigitPrefixLen(arc_string)
    IN  IF k >= 1 /\ Len(arc_string) > k /\ arc_string[k + 1] = "."
        THEN DecimalValue(SubSeq(arc_string, 1, k))
        ELSE 0

\* set(val.strip() for val in str(v).split(','))
TokenSet(v) == {v[i] : i \in 1..Len(v)}

\* ',' in str(v)
HasComma(v) == Len(v) > 1

\* LolDleSolver.normalize_range_value
normalize_range_value(value) ==
    IF value = <<"Both">> THEN <<"Melee", "Ranged">> ELSE value

\* LolDleSolver.normalize_range_values_for_comparison
normalize_range_values_for_comparison(value) ==
    LET normalized == normalize_range_value(value)
    IN  IF HasComma(normalized) THEN TokenSet(normalized) ELSE {normalized[1]}

\* ------------------------------------------------------------------------
\* The games: column names and their classification

Games == {"Loldle", "OnePieceDle", "Warframedle"}

\* the target_column each subclass passes to GameDleSolver.__init__
target_column(g) ==
    CASE g = "Loldle" -> "Champion"
      [] g = "OnePieceDle" -> "Character"
      [] g = "Warframedle" -> "Frame"

\* _define_category_types: the modelled column of each kind
yes_or_no(g) ==
    CASE g = "Loldle" -> "Gender"
      [] g = "OnePieceDle" -> "Genre"
      [] g = "Warframedle" -> "Gender"

orderable(g) ==
    CASE g = "Loldle" -> "Release Year"
      [] g = "OnePieceDle" -> "Debut Arc"
      [] g = "Warframedle" -> "Release"

partial_matchable(g) ==
    CASE g = "Loldle" -> "Range"
      [] g = "OnePieceDle" -> "Haki"
      [] g = "Warframedle" -> "Roles"

\* str.lower() on the column names
Lower(s) ==
    CASE s = "Champion" -> "champion"
      [] s = "Character" -> "character"
      [] s = "Frame" -> "frame"
      [] s = "Gender" -> "gender"
      [] s = "Genre" -> "genre"
      [] s = "Release Year" -> "release year"
      [] s = "Debut Arc" -> "debut arc"
      [] s = "Release" -> "release"
      [] s = "Range" -> "range"
      [] s = "Haki" -> "haki"
      [] s = "Roles" -> "roles"

\* a feedback key that is the lower-cased name of no classified category
UnknownKey == "release_year"

\* ------------------------------------------------------------------------
\* Feedback dicts: functions from a set of keys to outcome tokens

FeedbackKeys(g) ==
    {Lower(target_column(g)), Lower(yes_or_no(g)), Lower(orderable(g)),
     Lower(partial_matchable(g)), UnknownKey}

\* the outcome tokens legal for a key
LegalTokens(g, k) ==
    IF k = Lower(orderable(g)) THEN {"lower", "higher", "correct"}
    ELSE IF k = Lower(partial_matchable(g)) THEN {"correct", "partial", "incorrect"}
    ELSE {"correct", "incorrect"}

Feedbacks(g) ==
    UNION {[K -> {"correct", "incorrect", "lower", "higher", "partial"}] :
             K \in {K \in SUBSET FeedbackKeys(g) :
                      Cardinality(K) <= MaxFeedbackEntries}}

LegalFeedbacks(g) ==
    {fb \in Feedbacks(g) : \A k \in DOMAIN fb : fb[k] \in LegalTokens(g, k)}

\* the identity field's feedback key
IdentityKeyOf(g) == Lower(target_column(g))

\* dict.get(key)
Get(fb, k) == IF k \in DOMAIN fb THEN fb[k] ELSE None

\* {k: v for k, v in feedback.items() if k != key}
Without(fb, key) == [k \in (DOMAIN fb) \ {key} |-> fb[k]]

\* ------------------------------------------------------------------------
\* Catalog access

\* self.data[self.target_column].tolist()
all_targets(d) == [i \in 1..Len(d) |-> d[i].name]

Names(d) == {d[i].name : i \in 1..Len(d)}

\* data[data[target_column] == name].iloc[0]
RowOf(d, name) ==
    d[CHOOSE i \in 1..Len(d) :
          /\ d[i].name = name
          /\ \A j \in 1..(i - 1) : d[j].name # name]

\* the position of a name in catalog order
IndexOf(d, name) == CHOOSE i \in 1..Len(d) : d[i].name = name

\* Python's < on two cells of the orderable column: int for Loldle's
\* Release Year, str for Warframedle's Release and OnePieceDle's Debut Arc
OrdLess(g, a, b) == IF g = "Loldle" THEN a < b ELSE StrLess(a, b)

\* ------------------------------------------------------------------------
\* FeedbackSimulator

\* the partial-matchable branch shared by simulate_feedback_parallel and the
\* three _simulate_feedback methods (their non-Range branch)
SimulatePartial(guess_value, target_value) ==
    IF HasComma(guess_value) \/ HasComma(target_value)
    THEN IF TokenSet(guess_value) = TokenSet(target_value) THEN "correct"
         ELSE IF TokenSet(guess_value) \cap TokenSet(target_value) # {} THEN "partial"
         ELSE "incorrect"
    ELSE IF guess_value = target_value THEN "correct" ELSE "incorrect"

\* LolDleSolver._simulate_feedback, the Range branch
SimulateRange(guess_value, target_value) ==
    LET guess_values == normalize_range_values_for_comparison(guess_value)
        target_values == normalize_range_values_for_comparison(target_value)
    IN  IF guess_values = target_values THEN "correct"
        ELSE IF guess_values \cap target_values # {} THEN "partial"
        ELSE "incorrect"

\* the orderable branch of the base class: compare target to guess
SimulateOrderable(g, guess_value, target_value) ==
    IF OrdLess(g, target_value, guess_value) THEN "lower"
    ELSE IF OrdLess(g, guess_value, target_value) THEN "higher"
    ELSE "correct"

\* OnePieceDleSolver._simulate_feedback, the Debut Arc branch
SimulateDebutArc(guess_value, target_value) ==
    LET guess_arc_num == _extract_arc_number(guess_value)
        target_arc_num == _extract_arc_number(target_value)
    IN  IF guess_arc_num < target_arc_num THEN "higher"
        ELSE IF guess_arc_num > target_arc_num THEN "lower"
        ELSE "correct"

\* module-level simulate_feedback_parallel(data, ..., guess_target, target)
simulate_feedback_parallel(g, d, guess_target, target) ==
    LET guess_data == RowOf(d, guess_target)
        target_data == RowOf(d, target)
    IN  [k \in FeedbackKeys(g) \ {UnknownKey} |->
            IF k = Lower(target_column(g))
            THEN (IF guess_target = target THEN "correct" ELSE "incorrect")
            ELSE IF k = Lower(yes_or_no(g))
            THEN (IF guess_data.yn = target_data.yn THEN "correct" ELSE "incorrect")
            ELSE IF k = Lower(orderable(g))
            THEN SimulateOrderable(g, guess_data.ord, target_data.ord)
            ELSE SimulatePartial(guess_data.pm, target_data.pm)]

\* self._simulate_feedback(guess_target, target): GameDleSolver's method, or
\* the override of LolDleSolver (Range) or OnePieceDleSolver (Debut Arc)
_simulate_feedback(g, d, guess_target, target) ==
    LET guess_data == RowOf(d, guess_target)
        target_data == RowOf(d, target)
    IN  [k \in FeedbackKeys(g) \ {UnknownKey} |->
            IF k = Lower(target_column(g))
            THEN (IF guess_target = target THEN "correct" ELSE "incorrect")
            ELSE IF k = Lower(yes_or_no(g))
            THEN (IF guess_data.yn = target_data.yn THEN "correct" ELSE "incorrect")
            ELSE IF k = Lower(orderable(g))
            THEN (IF orderable(g) = "Debut Arc"
                  THEN SimulateDebutArc(guess_data.ord, target_data.ord)
                  ELSE SimulateOrderable(g, guess_data.ord, target_data.ord))
            ELSE (IF partial_matchable(g) = "Range"
                  THEN SimulateRange(guess_data.pm, target_data.pm)
                  ELSE SimulatePartial(guess_data.pm, target_data.pm))]

\* ------------------------------------------------------------------------
\* ConstraintEngine: the compatibility predicate

\* the yes/no loop body; a token it does not name constrains nothing
CompatibleYesOrNo(token, target_value, guess_value) ==
    CASE token = "correct" -> target_value = guess_value
      [] token = "incorrect" -> target_value # guess_value
      [] OTHER -> TRUE

\* the orderable loop body (raw values, also for Debut Arc)
CompatibleOrderable(g, token, target_value, guess_value) ==
    CASE token = "lower" -> OrdLess(g, target_value, guess_value)
      [] token = "higher" -> OrdLess(g, guess_value, target_value)
      [] token = "correct" -> target_value = guess_value
      [] OTHER -> TRUE

\* the partial-matchable loop body of the base class
CompatiblePartial(token, target_value, guess_value) ==
    CASE token = "correct" -> target_value = guess_value
      [] token = "incorrect" ->
            IF HasComma(target_value) /\ HasComma(guess_value)
            THEN TokenSet(target_value) \cap TokenSet(guess_value) = {}
            ELSE target_value # guess_value
      [] token = "partial" ->
            IF HasComma(target_value) /\ HasComma(guess_value)
            THEN /\ TokenSet(target_value) \cap TokenSet(guess_value) # {}
                 /\ TokenSet(target_value) # TokenSet(guess_value)
            ELSE FALSE
      [] OTHER -> TRUE

\* LolDleSolver._target_compatible_with_feedback, the Range branch
CompatibleRange(token, target_value, guess_value) ==
    LET target_values == normalize_range_values_for_comparison(target_value)
        guess_values == normalize_range_values_for_comparison(guess_value)
    IN  CASE token = "correct" -> target_values = guess_values
          [] token = "incorrect" -> target_values \cap guess_values = {}
          [] token = "partial" ->
                /\ target_values \cap guess_values # {}
                /\ target_values # guess_values
          [] OTHER -> TRUE

\* module-level target_compatible_with_feedback_parallel
target_compatible_with_feedback_parallel(g, d, target, guess_target, feedback) ==
    LET target_data == RowOf(d, target)
        guess_data == RowOf(d, guess_target)
        id == Lower(target_column(g))
        yn == Lower(yes_or_no(g))
        od == Lower(orderable(g))
        pm == Lower(partial_matchable(g))
    IN  IF Get(feedback, id) = "correct" THEN target = guess_target
        ELSE /\ ~(Get(feedback, id) = "incorrect" /\ target = guess_target)
             /\ yn \in DOMAIN feedback =>
                    CompatibleYesOrNo(feedback[yn], target_data.yn, guess_data.yn)
             /\ od \in DOMAIN feedback =>
                    CompatibleOrderable(g, feedback[od], target_data.ord, guess_data.ord)
             /\ pm \in DOMAIN feedback =>
                    CompatiblePartial(feedback[pm], target_data.pm, guess_data.pm)

\* self._target_compatible_with_feedback: GameDleSolver's method (which
\* OnePieceDleSolver inherits) or LolDleSolver's override
_target_compatible_with_feedback(g, d, target, guess_target, feedback) ==
    LET target_data == RowOf(d, target)
        guess_data == RowOf(d, guess_target)
        id == Lower(target_column(g))
        yn == Lower(yes_or_no(g))
        od == Lower(orderable(g))
        pm == Lower(partial_matchable(g))
    IN  IF Get(feedback, id) = "correct" THEN target = guess_target
        ELSE /\ ~(Get(feedback, id) = "incorrect" /\ target = guess_target)
             /\ yn \in DOMAIN feedback =>
                    CompatibleYesOrNo(feedback[yn], target_data.yn, guess_data.yn)
             /\ od \in DOMAIN feedback =>
                    CompatibleOrderable(g, feedback[od], target_data.ord, guess_data.ord)
             /\ pm \in DOMAIN feedback =>
                    IF partial_matchable(g) = "Range"
                    THEN CompatibleRange(feedback[pm], target_data.pm, guess_data.pm)
                    ELSE CompatiblePartial(feedback[pm], target_data.pm, guess_data.pm)

\* ------------------------------------------------------------------------
\* ConstraintEngine: the filters of apply_guess.  pt is possible_targets (its
\* rows carry their own cell values), guessed_target is the guess's row of
\* self.data.  A key absent from the feedback, or a token that no branch
\* names, leaves pt as it is.

\* GameDleSolver._apply_yes_or_no_filters
_apply_yes_or_no_filters(g, pt, guessed_target, feedback) ==
    LET feedback_key == Lower(yes_or_no(g))
    IN  IF feedback_key \notin DOMAIN feedback THEN pt
        ELSE CASE feedback[feedback_key] = "correct" ->
                    {r \in pt : r.yn = guessed_target.yn}
               [] feedback[feedback_key] = "incorrect" ->
                    {r \in pt : r.yn # guessed_target.yn}
               [] OTHER -> pt

\* a faulty loop body, with the comparison guess-relative-to-target
FilterOrderable_reversed(g, pt, guessed_value, token) ==
    CASE token = "lower" -> {r \in pt : OrdLess(g, guessed_value, r.ord)}
      [] token = "higher" -> {r \in pt : OrdLess(g, r.ord, guessed_value)}
      [] token = "correct" -> {r \in pt : r.ord = guessed_value}
      [] OTHER -> pt

\* GameDleSolver._apply_orderable_filters, the loop body
FilterOrderable(g, pt, guessed_value, token) ==
    CASE token = "lower" -> {r \in pt : OrdLess(g, r.ord, guessed_value)}
      [] token = "higher" -> {r \in pt : OrdLess(g, guessed_value, r.ord)}
      [] token = "correct" -> {r \in pt : r.ord = guessed_value}
      [] OTHER -> pt

\* OnePieceDleSolver._apply_orderable_filters, the Debut Arc branch
FilterDebutArc(pt, guessed_value, token) ==
    LET guessed_arc_num == _extract_arc_number(guessed_value)
    IN  CASE token = "lower" ->
                {r \in pt : _extract_arc_number(r.ord) < guessed_arc_num}
          [] token = "higher" ->
                {r \in pt : _extract_arc_number(r.ord) > guessed_arc_num}
          [] token = "correct" -> {r \in pt : r.ord = guessed_value}
          [] OTHER -> pt

\* self._apply_orderable_filters: the base method or OnePieceDleSolver's
_apply_orderable_filters(g, pt, guessed_target, feedback) ==
    LET feedback_key == Lower(orderable(g))
    IN  IF feedback_key \notin DOMAIN feedback THEN pt
        ELSE IF orderable(g) = "Debut Arc"
        THEN FilterDebutArc(pt, guessed_target.ord, feedback[feedback_key])
        ELSE FilterOrderable(g, pt, guessed_target.ord, feedback[feedback_key])

\* GameDleSolver._apply_partial_matchable_filters, the loop body
FilterPartial(pt, guessed_value, token) ==
    CASE token = "correct" -> {r \in pt : r.pm = guessed_value}
      [] token = "incorrect" ->
            IF HasComma(guessed_value)
            THEN {r \in pt : TokenSet(r.pm) \cap TokenSet(guessed_value) = {}}
            ELSE {r \in pt : r.pm # guessed_value}
      [] token = "partial" ->
            IF HasComma(guessed_value)
            THEN {r \in pt : /\ r.pm # guessed_value
                             /\ TokenSet(r.pm) \cap TokenSet(guessed_value) # {}}
            ELSE {r \in pt : r.pm # guessed_value}
      [] OTHER -> pt

\* LolDleSolver._apply_partial_matchable_filters, the Range branch
FilterRange(pt, guessed_value, token) ==
    LET guessed_values == normalize_range_values_for_comparison(guessed_value)
    IN  CASE token = "correct" ->
                {r \in pt : normalize_range_values_for_comparison(r.pm) = guessed_values}
          [] token = "incorrect" ->
                {r \in pt :
                    normalize_range_values_for_comparison(r.pm) \cap guessed_values = {}}
          [] token = "partial" ->
                {r \in pt :
                    /\ normalize_range_values_for_comparison(r.pm) # guessed_values
                    /\ normalize_range_values_for_comparison(r.pm) \cap guessed_values # {}}
          [] OTHER -> pt

\* self._apply_partial_matchable_filters: the base method or LolDleSolver's
_apply_partial_matchable_filters(g, pt, guessed_target, feedback) ==
    LET feedback_key == Lower(partial_matchable(g))
    IN  IF feedback_key \notin DOMAIN feedback THEN pt
        ELSE IF partial_matchable(g) = "Range"
        THEN FilterRange(pt, guessed_target.pm, feedback[feedback_key])
        ELSE FilterPartial(pt, guessed_target.pm, feedback[feedback_key])

\* a faulty apply_guess, without the identity branch: every entry but the
\* identity's is applied as a filter
apply_guess_without_narrowing(g, d, pt, target_name, feedback) ==
    LET guessed_target == RowOf(d, target_name)
        filtered_feedback == Without(feedback, Lower(target_column(g)))
    IN  _apply_partial_matchable_filters(g,
            _apply_orderable_filters(g,
                _apply_yes_or_no_filters(g, pt, guessed_target, filtered_feedback),
                guessed_target, filtered_feedback),
            guessed_target, filtered_feedback)

\* a faulty apply_guess that stops after the first kind of category the
\* feedback names
apply_guess_first_filter_only(g, d, pt, target_name, feedback) ==
    LET guessed_target == RowOf(d, target_name)
        filtered_feedback == Without(feedback, Lower(target_column(g)))
    IN  IF Get(feedback, Lower(target_column(g))) = "correct"
        THEN {r \in pt : r.name = target_name}
        ELSE IF Lower(yes_or_no(g)) \in DOMAIN feedback
        THEN _apply_yes_or_no_filters(g, pt, guessed_target, filtered_feedback)
        ELSE IF Lower(orderable(g)) \in DOMAIN feedback
        THEN _apply_orderable_filters(g, pt, guessed_target, filtered_feedback)
        ELSE _apply_partial_matchable_filters(g, pt, guessed_target, filtered_feedback)

\* a faulty apply_guess that falls back to every row of the catalog when the
\* filters leave nothing
apply_guess_refilling(g, d, pt, target_name, feedback) ==
    LET guessed_target == RowOf(d, target_name)
        filtered_feedback == Without(feedback, Lower(target_column(g)))
        left == IF Get(feedback, Lower(target_column(g))) = "correct"
                THEN {r \in pt : r.name = target_name}
                ELSE _apply_partial_matchable_filters(g,
                         _apply_orderable_filters(g,
                             _apply_yes_or_no_filters(g, pt, guessed_target,
                                                      filtered_feedback),
                             guessed_target, filtered_feedback),
                         guessed_target, filtered_feedback)
    IN  IF left = {} THEN {d[i] : i \in 1..Len(d)} ELSE left

\* a faulty apply_guess that keeps no candidate when the feedback holds a key
\* that names no classified category
apply_guess_rejecting_unknown(g, d, pt, target_name, feedback) ==
    LET guessed_target == RowOf(d, target_name)
        filtered_feedback == Without(feedback, Lower(target_column(g)))
    IN  IF UnknownKey \in DOMAIN feedback THEN {}
        ELSE IF Get(feedback, Lower(target_column(g))) = "correct"
        THEN {r \in pt : r.name = target_name}
        ELSE _apply_partial_matchable_filters(g,
                 _apply_orderable_filters(g,
                     _apply_yes_or_no_filters(g, pt, guessed_target, filtered_feedback),
                     guessed_target, filtered_feedback),
                 guessed_target, filtered_feedback)

\* GameDleSolver.apply_guess: the value it leaves in self.possible_targets
apply_guess(g, d, pt, target_name, feedback) ==
    LET guessed_target == RowOf(d, target_name)
        filtered_feedback == Without(feedback, Lower(target_column(g)))
    IN  IF Get(feedback, Lower(target_column(g))) = "correct"
        THEN {r \in pt : r.name = target_name}
        ELSE _apply_partial_matchable_filters(g,
                 _apply_orderable_filters(g,
                     _apply_yes_or_no_filters(g, pt, guessed_target, filtered_feedback),
                     guessed_target, filtered_feedback),
                 guessed_target, filtered_feedback)

\* GameDleSolver.get_possible_targets, in catalog order, as a set of ids
Ids(pt) == {r.name : r \in pt}

\* ------------------------------------------------------------------------
\* EntropySearch: the score of one guess

\* round(1000 * math.log2(n))
Log2Scaled(n) ==
    CASE n = 1 -> 0
      [] n = 2 -> 1000
      [] n = 3 -> 1585
      [] n = 4 -> 2000
      [] n = 5 -> 2322
      [] n = 6 -> 2585
      [] n = 7 -> 2807
      [] n = 8 -> 3000
      [] n = 9 -> 3170
      [] n = 10 -> 3322
      [] n = 11 -> 3459
      [] n = 12 -> 3585
      [] n = 13 -> 3700

RECURSIVE Sum(_, _)
Sum(f, S) ==
    IF S = {} THEN 0
    ELSE LET x == CHOOSE y \in S : TRUE
         IN  f[x] + Sum(f, S \ {x})

\* float('inf')
Infinity == <<1, 0>>

\* a < b on two scores
ScoreLess(a, b) == a[1] * b[2] < b[1] * a[2]

\* a faulty accumulation, in which the sum is not divided by the number of
\* targets counted
Accumulate_undivided(counts, targets) ==
    LET hit == {t \in targets : counts[t] > 0}
        expected_entropy == Sum([t \in hit |-> counts[t] * Log2Scaled(counts[t])], hit)
    IN  IF expected_entropy > 0
        THEN <<expected_entropy, Cardinality(targets)>>
        ELSE <<0, 1>>

\* the accumulation both scoring functions share: counts[t] is
\* remaining_count for target t, over len(targets) targets
Accumulate(counts, targets) ==
    LET hit == {t \in targets : counts[t] > 0}
        expected_entropy == Sum([t \in hit |-> counts[t] * Log2Scaled(counts[t])], hit)
        total_outcomes == Cardinality(hit)
    IN  IF total_outcomes > 0 /\ expected_entropy > 0
        THEN <<expected_entropy, Cardinality(targets) * total_outcomes>>
        ELSE <<0, 1>>

\* GameDleSolver._count_remaining_targets_after_feedback
_count_remaining_targets_after_feedback(g, d, guess_target, feedback, targets) ==
    Cardinality({t \in targets :
                    _target_compatible_with_feedback(g, d, t, guess_target, feedback)})

\* GameDleSolver._calculate_expected_entropy, over the ids of possible_targets
_calculate_expected_entropy(g, d, targets, guess_target) ==
    Accumulate([target \in targets |->
                   _count_remaining_targets_after_feedback(g, d, guess_target,
                       _simulate_feedback(g, d, guess_target, target), targets)],
               targets)

\* module-level count_remaining_targets_after_feedback_parallel
count_remaining_targets_after_feedback_parallel(g, d, guess_target, feedback, targets) ==
    Cardinality({t \in targets :
                    target_compatible_with_feedback_parallel(g, d, t, guess_target, feedback)})

\* module-level calculate_entropy_for_guess_parallel: the score a worker returns
calculate_entropy_for_guess_parallel(g, d, targets, guess_target) ==
    Accumulate([target \in targets |->
                   count_remaining_targets_after_feedback_parallel(g, d, guess_target,
                       simulate_feedback_parallel(g, d, guess_target, target), targets)],
               targets)

\* ------------------------------------------------------------------------
\* GuessCache: entropy_cache as a set of <<guess, ids, score>>

\* GameDleSolver._get_cache_key: the sorted tuple of the ids is their set
_get_cache_key(pt, guess_target) == <<guess_target, Ids(pt)>>

InCache(cache, key) == \E e \in cache : <<e[1], e[2]>> = key

CacheGet(cache, key) == (CHOOSE e \in cache : <<e[1], e[2]>> = key)[3]

RECURSIVE SequentialLoop_last_wins(_, _, _, _, _)
\* a faulty loop, in which a guess that equals the least score seen so far
\* replaces the guess kept
SequentialLoop_last_wins(g, d, pt, i, st) ==
    IF i > Len(d) THEN st
    ELSE LET guess_target == d[i].name
             cache_key == _get_cache_key(pt, guess_target)
             hit == InCache(st.entropy_cache, cache_key)
             expected_entropy ==
                 IF hit THEN CacheGet(st.entropy_cache, cache_key)
                 ELSE _calculate_expected_entropy(g, d, Ids(pt), guess_target)
             better == ~ScoreLess(st.best_expected_entropy, expected_entropy)
         IN  SequentialLoop_last_wins(g, d, pt, i + 1,
                 [entropy_cache |->
                      IF hit THEN st.entropy_cache
                      ELSE st.entropy_cache
                               \cup {<<guess_target, Ids(pt), expected_entropy>>},
                  best_expected_entropy |->
                      IF better THEN expected_entropy ELSE st.best_expected_entropy,
                  best_guess |-> IF better THEN guess_target ELSE st.best_guess])

RECURSIVE SequentialLoop(_, _, _, _, _)
\* the for loop of _get_optimal_guess_sequential from catalog position i on;
\* st holds its locals and the cache
SequentialLoop(g, d, pt, i, st) ==
    IF i > Len(d) THEN st
    ELSE LET guess_target == d[i].name
             cache_key == _get_cache_key(pt, guess_target)
             hit == InCache(st.entropy_cache, cache_key)
             expected_entropy ==
                 IF hit THEN CacheGet(st.entropy_cache, cache_key)
                 ELSE _calculate_expected_entropy(g, d, Ids(pt), guess_target)
             better == ScoreLess(expected_entropy, st.best_expected_entropy)
         IN  SequentialLoop(g, d, pt, i + 1,
                 [entropy_cache |->
                      IF hit THEN st.entropy_cache
                      ELSE st.entropy_cache
                               \cup {<<guess_target, Ids(pt), expected_entropy>>},
                  best_expected_entropy |->
                      IF better THEN expected_entropy ELSE st.best_expected_entropy,
                  best_guess |-> IF better THEN guess_target ELSE st.best_guess])

\* GameDleSolver._get_optimal_guess_sequential: its locals and the cache when
\* it returns best_guess
_get_optimal_guess_sequential(g, d, pt, cache) ==
    SequentialLoop(g, d, pt, 1,
        [entropy_cache |-> cache, best_expected_entropy |-> Infinity,
         best_guess |-> None])

\* ------------------------------------------------------------------------
\* Catalogs: the rows a CSV file may hold, per game

\* the parallel threshold of _get_optimal_guess_parallel
ParallelThreshold == 10

\* rows of a catalog large enough for a search above the threshold that is
\* not the opening search
LargeRows == ParallelThreshold + 2

\* the identity column, by catalog position
NameAt(i) ==
    <<"A", "B", "C", "D", "E", "F", "G", "H", "I", "J", "K", "L", "M">>[i]

\* a name no catalog lists
Unlisted == "Unlisted"

\* the cells of a row as read from the CSV (yn, ord, pm), in the order the
\* reference catalog lists them
UniverseSeq(g) ==
    CASE g = "Loldle" ->
            <<[yn |-> "x", ord |-> 2010, pm |-> <<"Melee">>],
              [yn |-> "x", ord |-> 2015, pm |-> <<"Both">>],
              [yn |-> "y", ord |-> 2020, pm |-> <<"Ranged">>]>>
      [] g = "OnePieceDle" ->
            <<[yn |-> "x", ord |-> <<"0", "1", ".", "A">>, pm |-> <<"a">>],
              [yn |-> "x", ord |-> <<"0", "1", ".", "B">>, pm |-> <<"a", "b">>],
              [yn |-> "y", ord |-> <<"U">>, pm |-> <<"b", "c">>],
              [yn |-> "y", ord |-> <<"9", ".", "A">>, pm |-> <<"c">>]>>
      [] g = "Warframedle" ->
            <<[yn |-> "x", ord |-> <<"2", "0", "1", "2", "-", "1">>, pm |-> <<"a">>],
              [yn |-> "x", ord |-> <<"2", "0", "1", "3", "-", "0">>, pm |-> <<"a", "b">>],
              [yn |-> "y", ord |-> <<"2", "0", "1", "3", "-", "9">>, pm |-> <<"b", "a">>]>>

Universe(g) == {UniverseSeq(g)[i] : i \in 1..Len(UniverseSeq(g))}

\* a catalog from the cells of its rows
Csv(cells) ==
    [i \in 1..Len(cells) |-> [name |-> NameAt(i), yn |-> cells[i].yn,
                              ord |-> cells[i].ord, pm |-> cells[i].pm]]

\* pd.read_csv: the catalogs of n rows
CsvFiles(g, n) == {Csv(cells) : cells \in [1..n -> Universe(g)]}

\* the reference catalog of n rows: the universe in its listed order
ReferenceCsv(g, n) ==
    Csv([i \in 1..n |-> UniverseSeq(g)[((i - 1) % Len(UniverseSeq(g))) + 1]])

\* the orderable cell of rank k in a large catalog
LargeOrd(g, k) ==
    CASE g = "Loldle" -> 2000 + k
      [] g = "OnePieceDle" -> <<Digit(k \div 10), Digit(k % 10), ".", "A">>
      [] g = "Warframedle" -> <<"2", "0", Digit(k \div 10), Digit(k % 10), "-", "1">>

\* a large catalog: every row but the last shares the yes/no cell; of those
\* the first four, the next two and the rest form three classes rising in the
\* orderable cell, the rows of a class being equal in every cell
LargeCsv(g) ==
    Csv([i \in 1..LargeRows |->
          [yn |-> IF i = LargeRows THEN "y" ELSE "x",
           ord |-> LargeOrd(g, IF i <= 4 THEN 1 ELSE IF i <= 6 THEN 2 ELSE 3),
           pm |-> IF g = "Loldle" THEN <<"Melee">> ELSE <<"a">>]])

\* Warframedle.preprocess_data: Release becomes its first four characters
preprocess_data(d) ==
    [i \in 1..Len(d) |->
        [d[i] EXCEPT !.ord = SubSeq(d[i].ord, 1, Min(4, Len(d[i].ord)))]]

\* DataFrame.copy(): the rows as a set
Copy(d) == {d[i] : i \in 1..Len(d)}

\* ------------------------------------------------------------------------
\* FirstGuessCache: optimal_guesses.json.  The file is a record: kind says
\* whether it exists, can be read and parsed, and holds a JSON object; entries
\* is the object, a function from keys to JSON values.  A JSON value is the
\* pair <<type, text>>.

\* a JSON string
Str(text) == <<"str", text>>

\* a JSON value that is not a string
NotStr == <<"int", "42">>

\* isinstance(value, str)
IsStr(value) == value[1] = "str"

\* os.path.exists(filename) is False
MissingFile == [kind |-> "missing", entries |-> <<>>]

\* open() or json.load() raises
UnreadableFile == [kind |-> "unreadable", entries |-> <<>>]

\* json.load() returns a value that is not a dict
NotObjectFile == [kind |-> "not_object", entries |-> <<>>]

\* json.load() returns the dict `entries`
ObjectFile(entries) == [kind |-> "object", entries |-> entries]

\* the display name of a game no solver of these sessions plays
OtherGame == "Pokedle"

\* all_guesses[key] = value
SetEntry(entries, key, value) ==
    [k \in (DOMAIN entries) \cup {key} |-> IF k = key THEN value ELSE entries[k]]

\* GameDleSolver._load_optimal_first_guesses: the value it leaves in
\* self.optimal_first_guesses
_load_optimal_first_guesses(f, game_name) ==
    IF f.kind = "object" /\ game_name \in DOMAIN f.entries
          /\ IsStr(f.entries[game_name])
    THEN f.entries[game_name][2]
    ELSE None

\* what the write of _save_optimal_first_guesses may do: write the file, fail
\* on open (the file stays as it is), fail after the file was truncated
WriteOutcomes == {"written", "refused", "torn"}

\* the outcomes explored: every one where a file was found, the write alone
\* where none was
WriteOutcomesOn(f) == IF f = MissingFile THEN {"written"} ELSE WriteOutcomes

\* GameDleSolver._save_optimal_first_guesses: the file it leaves; every
\* exception is caught
_save_optimal_first_guesses(f, game_name, guess, outcome) ==
    IF guess = None THEN f
    ELSE IF f.kind \in {"unreadable", "not_object"} THEN f
    ELSE CASE outcome = "written" ->
                  ObjectFile(SetEntry(f.entries, game_name, Str(guess)))
           [] outcome = "refused" -> f
           [] outcome = "torn" -> UnreadableFile

\* the files a session may find: none, an unreadable one, one that is not a
\* JSON object, an object without the game's key, and objects mapping the
\* game to a catalog id, to a name the catalog does not list, to the empty
\* string and to a value that is not a string
LoadedFiles(g, d) ==
    {MissingFile, UnreadableFile, NotObjectFile,
     ObjectFile([k \in {OtherGame} |-> Str("X")])}
        \cup {ObjectFile(SetEntry([k \in {OtherGame} |-> Str("X")], g, v)) :
                 v \in {Str(d[1].name), Str(Unlisted), Str(""), NotStr}}

\* the sessions explored: every small catalog with no file, the reference
\* catalog and the catalogs of one row with every file, the large catalog (of
\* Loldle, the workers being the same code for every game) and the audited
\* sessions with a file that maps the game to a catalog id
InitialFiles(g, csv, audited) ==
    IF audited \/ csv = LargeCsv(g)
    THEN {ObjectFile([k \in {g} |-> Str(csv[1].name)])}
    ELSE IF csv = ReferenceCsv(g, NumRows) \/ Len(csv) = 1
    THEN LoadedFiles(g, csv)
    ELSE {MissingFile}

\* ------------------------------------------------------------------------
\* The session

\* call.prev when the call before was not get_optimal_guess
NoReturn == "NoReturn"

NoCall ==
    [op |-> "init", guess |-> None, feedback |-> <<>>, before |-> 0,
     ret |-> None, prev |-> NoReturn]

\* discovery_mode is not running
NotDiscovering ==
    [pc |-> "off", guess_count |-> 0, game_history |-> <<>>,
     optimal_guess |-> None, feedback |-> <<>>, printed |-> None,
     final_answer |-> None]

\* GameDleSolver.__init__ on the CSV file csv (and Warframedle.__init__, which
\* preprocesses self.data after possible_targets was copied from it)
Constructed(csv) ==
    /\ possible_targets = Copy(csv)
    /\ data = IF game = "Warframedle" THEN preprocess_data(csv) ELSE csv
    /\ file \in InitialFiles(game, csv, audit)
    /\ optimal_first_guesses = _load_optimal_first_guesses(file, game)
    /\ entropy_cache = {}
    /\ pc = "idle"
    /\ pending = <<>>
    /\ best_guess = None
    /\ best_expected_entropy = Infinity
    /\ call = NoCall

\* a solver as constructed, used through its methods
Init ==
    /\ game \in Games
    /\ audit \in BOOLEAN
    /\ \E csv \in CsvFiles(game, NumRows) \cup CsvFiles(game, 1)
                     \cup (IF game = "Loldle" THEN {LargeCsv(game)} ELSE {}) :
          /\ audit => csv = ReferenceCsv(game, NumRows)
          /\ Constructed(csv)
    /\ discovery = NotDiscovering

\* the record of a call that returns now; the guess is kept in an audited
\* session and when the catalog does not list it
Record(op, guess, feedback, ret) ==
    call' = [op |-> op,
             guess |-> IF audit \/ guess \notin Names(data) THEN guess ELSE None,
             feedback |-> IF audit THEN feedback ELSE <<>>,
             before |-> IF audit THEN Cardinality(possible_targets) ELSE 0,
             ret |-> ret,
             prev |-> IF op = "get_optimal_guess" /\ call.op = "get_optimal_guess"
                      THEN call.ret ELSE NoReturn]

\* GameDleSolver.reset
reset ==
    /\ pc = "idle"
    /\ possible_targets' = Copy(data)
    /\ entropy_cache' = {}
    /\ Record("reset", None, <<>>, None)
    /\ UNCHANGED <<game, data, optimal_first_guesses, pending, best_guess,
                   best_expected_entropy, pc, audit, file>>

\* the feedback dicts a caller passes: at most one entry, of any token, in
\* every session; in an audited session also every dict of legal outcomes
CallerFeedbacks(g, audited) ==
    {fb \in Feedbacks(g) : Cardinality(DOMAIN fb) <= 1}
        \cup (IF audited THEN LegalFeedbacks(g) ELSE {})

\* the exception .iloc[0] raises on a selection of no rows
IndexError == "IndexError"

\* a faulty apply_guess method that clears the score cache before it looks
\* the guess up
ApplyGuess_clearing_first(target_name, feedback) ==
    /\ pc = "idle"
    /\ entropy_cache' = {}
    /\ IF target_name \in Names(data)
       THEN /\ possible_targets' =
                   apply_guess(game, data, possible_targets, target_name, feedback)
            /\ Record("apply_guess", target_name, feedback, None)
       ELSE /\ Record("apply_guess", target_name, feedback, IndexError)
            /\ UNCHANGED possible_targets
    /\ UNCHANGED <<game, data, optimal_first_guesses, pending, best_guess,
                   best_expected_entropy, pc, audit, file>>

\* a faulty apply_guess method that leaves the score cache as it is
ApplyGuess_keeping_cache(target_name, feedback) ==
    /\ pc = "idle"
    /\ IF target_name \in Names(data)
       THEN /\ possible_targets' =
                   apply_guess(game, data, possible_targets, target_name, feedback)
            /\ Record("apply_guess", target_name, feedback, None)
       ELSE /\ Record("apply_guess", target_name, feedback, IndexError)
            /\ UNCHANGED possible_targets
    /\ UNCHANGED <<game, data, optimal_first_guesses, pending, best_guess,
                   best_expected_entropy, pc, audit, file, entropy_cache>>

\* GameDleSolver.apply_guess(target_name, feedback): the lookup of the
\* guess's row raises for a name the catalog does not list
ApplyGuess(target_name, feedback) ==
    /\ pc = "idle"
    /\ IF target_name \in Names(data)
       THEN /\ possible_targets' =
                   apply_guess(game, data, possible_targets, target_name, feedback)
            /\ entropy_cache' = {}
            /\ Record("apply_guess", target_name, feedback, None)
       ELSE /\ Record("apply_guess", target_name, feedback, IndexError)
            /\ UNCHANGED <<possible_targets, entropy_cache>>
    /\ UNCHANGED <<game, data, optimal_first_guesses, pending, best_guess,
                   best_expected_entropy, pc, audit, file>>

\* get_optimal_guess returns `guess`
Return(guess) ==
    /\ Record("get_optimal_guess", None, <<>>, guess)
    /\ pc' = "idle"
    /\ pending' = <<>>
    /\ best_guess' = None
    /\ best_expected_entropy' = Infinity

\* ProcessPoolExecutor: one task per catalog member is submitted; pending maps
\* the guess of each future not yet taken from as_completed to the entropy its
\* worker returns. While the search is in flight, call keeps of the call before
\* it only what the record of this one is derived from
Dispatch(loop, targets) ==
    /\ pc' = loop
    /\ pending' = [guess \in Names(data) |->
                      calculate_entropy_for_guess_parallel(game, data, targets, guess)]
    /\ best_guess' = None
    /\ best_expected_entropy' = Infinity
    /\ call' = [NoCall EXCEPT !.op = call.op, !.ret = call.ret]
    /\ UNCHANGED <<entropy_cache, optimal_first_guesses>>

\* a faulty search that dispatches worker tasks whatever the number of
\* candidates
Search_always_dispatching == Dispatch("parallel", Ids(possible_targets))

\* GameDleSolver._get_optimal_guess_parallel, up to its return or its dispatch
Search ==
    IF Cardinality(possible_targets) <= ParallelThreshold
    THEN LET st == _get_optimal_guess_sequential(game, data, possible_targets,
                                                 entropy_cache)
         IN  /\ entropy_cache' = st.entropy_cache
             /\ Return(st.best_guess)
             /\ UNCHANGED optimal_first_guesses
    ELSE Dispatch("parallel", Ids(possible_targets))

\* a faulty get_optimal_guess that returns the stored opening guess whenever
\* there is one, whatever candidates are left
get_optimal_guess_always_stored ==
    /\ pc = "idle"
    /\ IF Cardinality(possible_targets) <= 1
       THEN /\ Return(IF possible_targets = {} THEN None
                      ELSE (CHOOSE r \in possible_targets : TRUE).name)
            /\ UNCHANGED <<entropy_cache, optimal_first_guesses>>
       ELSE IF optimal_first_guesses \notin {None, ""}
       THEN /\ Return(optimal_first_guesses)
            /\ UNCHANGED <<entropy_cache, optimal_first_guesses>>
       ELSE IF Cardinality(possible_targets) = Len(data)
               /\ optimal_first_guesses = None
       THEN Dispatch("first_guess", Names(data))
       ELSE Search
    /\ UNCHANGED <<game, data, possible_targets, audit, file>>

\* a faulty get_optimal_guess, without the early return for one candidate
get_optimal_guess_without_shortcut ==
    /\ pc = "idle"
    /\ IF possible_targets = {}
       THEN /\ Return(None)
            /\ UNCHANGED <<entropy_cache, optimal_first_guesses>>
       ELSE IF Cardinality(possible_targets) = Len(data)
       THEN IF optimal_first_guesses = None
            THEN Dispatch("first_guess", Names(data))
            ELSE IF optimal_first_guesses # ""
            THEN /\ Return(optimal_first_guesses)
                 /\ UNCHANGED <<entropy_cache, optimal_first_guesses>>
            ELSE Search
       ELSE Search
    /\ UNCHANGED <<game, data, possible_targets, audit, file>>

\* GameDleSolver.get_optimal_guess, up to its return or its dispatch
get_optimal_guess ==
    /\ pc = "idle"
    /\ IF Cardinality(possible_targets) <= 1
       THEN /\ Return(IF possible_targets = {} THEN None
                      ELSE (CHOOSE r \in possible_targets : TRUE).name)
            /\ UNCHANGED <<entropy_cache, optimal_first_guesses>>
       ELSE IF Cardinality(possible_targets) = Len(data)
       THEN \* get_optimal_first_guess_for_current_state
            IF optimal_first_guesses = None
            THEN Dispatch("first_guess", Names(data))
            ELSE IF optimal_first_guesses # ""
            THEN /\ Return(optimal_first_guesses)
                 /\ UNCHANGED <<entropy_cache, optimal_first_guesses>>
            ELSE Search
       ELSE Search
    /\ UNCHANGED <<game, data, possible_targets, audit, file>>

\* a faulty completion that returns the computed opening guess without
\* keeping it in self.optimal_first_guesses
FirstGuessCompleted_not_kept(guess) ==
    /\ pc = "first_guess"
    /\ guess \in DOMAIN pending
    /\ LET avg_entropy == pending[guess]
           better == ScoreLess(avg_entropy, best_expected_entropy)
           best == IF better THEN guess ELSE best_guess
       IN  IF DOMAIN pending = {guess}
           THEN /\ Return(best)
                /\ UNCHANGED <<optimal_first_guesses, file>>
           ELSE /\ pending' = [g \in DOMAIN pending \ {guess} |-> pending[g]]
                /\ best_guess' = best
                /\ best_expected_entropy' =
                       IF better THEN avg_entropy ELSE best_expected_entropy
                /\ UNCHANGED <<optimal_first_guesses, call, pc, file>>
    /\ UNCHANGED <<game, data, possible_targets, entropy_cache, audit>>

\* one pass of `for future in as_completed(...)` in
\* _calculate_optimal_first_guesses; after the last one get_optimal_first_guess
\* stores the guess and saves it, and get_optimal_guess returns it
FirstGuessCompleted(guess) ==
    /\ pc = "first_guess"
    /\ guess \in DOMAIN pending
    /\ LET avg_entropy == pending[guess]
           better == ScoreLess(avg_entropy, best_expected_entropy)
           best == IF better THEN guess ELSE best_guess
       IN  IF DOMAIN pending = {guess}
           THEN /\ optimal_first_guesses' = best
                /\ \E outcome \in WriteOutcomesOn(file) :
                      file' = _save_optimal_first_guesses(file, game, best, outcome)
                /\ Return(best)
           ELSE /\ pending' = [g \in DOMAIN pending \ {guess} |-> pending[g]]
                /\ best_guess' = best
                /\ best_expected_entropy' =
                       IF better THEN avg_entropy ELSE best_expected_entropy
                /\ UNCHANGED <<optimal_first_guesses, call, pc, file>>
    /\ UNCHANGED <<game, data, possible_targets, entropy_cache, audit>>

\* one pass of `for future in as_completed(...)` in
\* _get_optimal_guess_parallel; after the last one best_guess is returned
ParallelCompleted(guess) ==
    /\ pc = "parallel"
    /\ guess \in DOMAIN pending
    /\ LET cache_key == _get_cache_key(possible_targets, guess)
           hit == InCache(entropy_cache, cache_key)
           expected_entropy ==
               IF hit THEN CacheGet(entropy_cache, cache_key) ELSE pending[guess]
           better == ScoreLess(expected_entropy, best_expected_entropy)
           best == IF better THEN guess ELSE best_guess
       IN  /\ entropy_cache' =
                  IF hit THEN entropy_cache
                  ELSE entropy_cache
                           \cup {<<guess, Ids(possible_targets), expected_entropy>>}
           /\ IF DOMAIN pending = {guess}
              THEN Return(best)
              ELSE /\ pending' = [g \in DOMAIN pending \ {guess} |-> pending[g]]
                   /\ best_guess' = best
                   /\ best_expected_entropy' =
                          IF better THEN expected_entropy ELSE best_expected_entropy
                   /\ UNCHANGED <<call, pc>>
    /\ UNCHANGED <<game, data, possible_targets, optimal_first_guesses, audit,
                   file>>

\* the names a caller passes to apply_guess: the catalog's and, in a session
\* that is not audited, one it does not list
CallerGuesses(d, audited) == Names(d) \cup (IF audited THEN {} ELSE {Unlisted})

Next ==
    \/ reset /\ UNCHANGED discovery
    \/ \E target_name \in CallerGuesses(data, audit),
          feedback \in CallerFeedbacks(game, audit) :
          ApplyGuess(target_name, feedback) /\ UNCHANGED discovery
    \/ get_optimal_guess /\ UNCHANGED discovery
    \/ \E guess \in DOMAIN pending :
          FirstGuessCompleted(guess) /\ UNCHANGED discovery
    \/ \E guess \in DOMAIN pending :
          ParallelCompleted(guess) /\ UNCHANGED discovery

Spec == Init /\ [][Next]_vars

\* ------------------------------------------------------------------------
\* The interactive discovery session: discovery_mode run on a constructed
\* solver.  The catalogs are small, so no live search is dispatched to workers.

\* get_category_config: the entries for the modelled columns, in the order of
\* the list
get_category_config(g) ==
    CASE g = "Loldle" ->
            <<[category |-> "gender", valid_options |-> {"correct", "incorrect"}],
              [category |-> "range",
               valid_options |-> {"correct", "partial", "incorrect"}],
              [category |-> "release_year",
               valid_options |-> {"lower", "higher", "correct"}]>>
      [] g = "OnePieceDle" ->
            <<[category |-> "genre", valid_options |-> {"correct", "incorrect"}],
              [category |-> "haki",
               valid_options |-> {"correct", "partial", "incorrect"}],
              [category |-> "debut arc",
               valid_options |-> {"lower", "higher", "correct"}]>>
      [] g = "Warframedle" ->
            <<[category |-> "gender", valid_options |-> {"correct", "incorrect"}],
              [category |-> "roles",
               valid_options |-> {"correct", "partial", "incorrect"}],
              [category |-> "release",
               valid_options |-> {"lower", "higher", "correct"}]>>

\* the dicts _get_user_feedback builds from the first n categories: each is
\* skipped or answered with one of its valid options (any other input is
\* asked for again)
Answers(g, n) ==
    LET config == get_category_config(g)
    IN  UNION {{fb \in [{config[i].category : i \in I} ->
                            {"correct", "incorrect", "lower", "higher", "partial"}] :
                   \A i \in I : fb[config[i].category] \in config[i].valid_options} :
               I \in SUBSET (1..n)}

\* GameDleSolver._get_user_feedback: every category asked in turn, or
\* 'guessed' typed at one of them, which returns the answers so far with the
\* identity marked correct
_get_user_feedback(g) ==
    Answers(g, Len(get_category_config(g)))
        \cup {SetEntry(fb, Lower(target_column(g)), "correct") :
                 fb \in UNION {Answers(g, n - 1) :
                                  n \in 1..Len(get_category_config(g))}}

\* the summary of discovery_mode: the final answer it prints, None when it
\* prints no summary
FinalAnswer(g, history, feedback, optimal_guess, target_count) ==
    IF history = <<>> THEN None
    ELSE IF Get(feedback, Lower(target_column(g))) = "correct" THEN optimal_guess
    ELSE IF target_count = 0 THEN history[Len(history)]
    ELSE "Not found"

\* discovery_mode up to its loop: reset, guess_count = 0, game_history = []
DiscoveryStart ==
    /\ discovery.pc = "start"
    /\ reset
    /\ discovery' = [discovery EXCEPT !.pc = "round"]

\* optimal_guess = self.get_optimal_guess(), up to its return or its dispatch
DiscoverySuggest ==
    /\ discovery.pc = "round"
    /\ discovery.guess_count < MaxRounds
    /\ get_optimal_guess
    /\ discovery' = [discovery EXCEPT !.pc = "suggested"]

\* the loop has ended with the message `printed`; the summary follows
DiscoveryEnds(printed, history, feedback, optimal_guess, guess_count, target_count) ==
    discovery' = [pc |-> "done", guess_count |-> guess_count,
                  game_history |-> history, optimal_guess |-> optimal_guess,
                  feedback |-> feedback, printed |-> printed,
                  final_answer |-> FinalAnswer(game, history, feedback,
                                               optimal_guess, target_count)]

\* the rest of one pass of the loop, from the return of get_optimal_guess:
\* the user's feedback is read and applied and the three checks are made
DiscoveryRound(feedback) ==
    /\ discovery.pc = "suggested"
    /\ pc = "idle"
    /\ LET optimal_guess == call.ret
           history == Append(discovery.game_history, optimal_guess)
           guess_count == discovery.guess_count + 1
           left == apply_guess(game, data, possible_targets, optimal_guess, feedback)
       IN  IF optimal_guess = None \/ DOMAIN feedback = {}
           THEN /\ DiscoveryEnds(IF optimal_guess = None
                                 THEN "No more possible targets"
                                 ELSE "No feedback provided",
                                 discovery.game_history, discovery.feedback,
                                 optimal_guess, discovery.guess_count,
                                 Cardinality(possible_targets))
                /\ UNCHANGED <<game, data, possible_targets, entropy_cache,
                               optimal_first_guesses, pc, pending, best_guess,
                               best_expected_entropy, call, audit, file>>
           ELSE /\ ApplyGuess(optimal_guess, feedback)
                /\ IF optimal_guess \notin Names(data)
                   THEN discovery' = [discovery EXCEPT
                                         !.pc = "done", !.printed = IndexError,
                                         !.optimal_guess = optimal_guess,
                                         !.feedback = feedback,
                                         !.game_history = history]
                   ELSE IF Get(feedback, IdentityKeyOf(game)) = "correct"
                   THEN DiscoveryEnds("You found the target", history, feedback,
                                      optimal_guess, guess_count, Cardinality(left))
                   ELSE IF left = {}
                   THEN DiscoveryEnds("No targets match the feedback", history,
                                      feedback, optimal_guess, guess_count, 0)
                   ELSE IF Cardinality(left) = 1
                   THEN DiscoveryEnds("The correct answer is",
                                      Append(history, (CHOOSE r \in left : TRUE).name),
                                      feedback, optimal_guess, guess_count, 1)
                   ELSE discovery' = [discovery EXCEPT
                                         !.pc = "round",
                                         !.guess_count = guess_count,
                                         !.optimal_guess = optimal_guess,
                                         !.feedback = feedback,
                                         !.game_history = history]

\* a solver as constructed, on which discovery_mode is about to run
InitDiscovery ==
    /\ game \in Games
    /\ audit = FALSE
    /\ \E csv \in CsvFiles(game, NumRows) : Constructed(csv)
    /\ discovery = [NotDiscovering EXCEPT !.pc = "start"]

NextDiscovery ==
    \/ DiscoveryStart
    \/ DiscoverySuggest
    \/ \E guess \in DOMAIN pending :
          FirstGuessCompleted(guess) /\ UNCHANGED discovery
    \/ \E feedback \in _get_user_feedback(game) : DiscoveryRound(feedback)

SpecDiscovery == InitDiscovery /\ [][NextDiscovery]_vars

\* ------------------------------------------------------------------------
\* The writers of optimal_guesses.json: a solver's session and the batch
\* script Guess_Optimizer.py, a process of its own.  The catalogs are small, so
\* no live search is dispatched to workers.

\* the display names of the solvers the script constructs; NarutodleSolver is
\* not among the sources and is taken to be named after its game
ScriptGames == Games \cup {"Narutodle"}

\* what _calculate_optimal_first_guesses may return on catalog d: a member of
\* least score, the first of them to complete
OpeningGuesses(g, d) ==
    LET score == [guess \in Names(d) |->
                     calculate_entropy_for_guess_parallel(g, d, Names(d), guess)]
    IN  {guess \in Names(d) :
            \A other \in Names(d) : ~ScoreLess(score[other], score[guess])}

\* Guess_Optimizer.main: the opening guess of every solver of the script is
\* computed and the dict of them is dumped over the file; the guesses of the
\* other games come from catalogs of their own
Guess_Optimizer_main(guess, outcome) ==
    /\ file' = CASE outcome = "written" ->
                      ObjectFile([k \in ScriptGames |->
                                     IF k = game THEN Str(guess) ELSE Str("X")])
                 [] outcome = "refused" -> file
                 [] outcome = "torn" -> UnreadableFile
    /\ UNCHANGED <<game, data, possible_targets, entropy_cache,
                   optimal_first_guesses, pc, pending, best_guess,
                   best_expected_entropy, call, audit, discovery>>

\* a solver constructed on the reference catalog, whatever the file holds
InitPersistence ==
    /\ game \in Games
    /\ audit = FALSE
    /\ Constructed(ReferenceCsv(game, NumRows))
    /\ discovery = NotDiscovering

NextPersistence ==
    \/ reset /\ UNCHANGED discovery
    \/ \E target_name \in CallerGuesses(data, audit),
          feedback \in CallerFeedbacks(game, audit) :
          ApplyGuess(target_name, feedback) /\ UNCHANGED discovery
    \/ get_optimal_guess /\ UNCHANGED discovery
    \/ \E guess \in DOMAIN pending :
          FirstGuessCompleted(guess) /\ UNCHANGED discovery
    \/ \E guess \in OpeningGuesses(game, data), outcome \in WriteOutcomes :
          Guess_Optimizer_main(guess, outcome)

SpecPersistence == InitPersistence /\ [][NextPersistence]_vars

\* ------------------------------------------------------------------------
\* The truthful session: from reset, the loop
\*     g := get_optimal_guess(); apply_guess(g, _simulate_feedback(g, t))
\* for a fixed catalog member t.  discovery holds where the loop is and t.

\* the rows of t and u differ in the cell of at least one category
Differ(d, t, u) ==
    \/ RowOf(d, t).yn # RowOf(d, u).yn
    \/ RowOf(d, t).ord # RowOf(d, u).ord
    \/ RowOf(d, t).pm # RowOf(d, u).pm

\* t differs from every other catalog member
Distinguishable(d, t) == \A u \in Names(d) \ {t} : Differ(d, t, u)

\* self.reset() before the loop
TruthfulStart ==
    /\ discovery.pc = "start"
    /\ reset
    /\ discovery' = [discovery EXCEPT !.pc = "round"]

\* g := get_optimal_guess(), up to its return or its dispatch
TruthfulSuggest ==
    /\ discovery.pc = "round"
    /\ get_optimal_guess
    /\ discovery' = [discovery EXCEPT !.pc = "suggested"]

\* apply_guess(g, _simulate_feedback(g, t)); with no guess suggested, or one
\* that the catalog does not list, the lookup of its row raises and the loop
\* is left
TruthfulRound ==
    /\ discovery.pc = "suggested"
    /\ pc = "idle"
    /\ IF call.ret \in Names(data)
       THEN /\ ApplyGuess(call.ret,
                          _simulate_feedback(game, data, call.ret, discovery.target))
            /\ discovery' = [discovery EXCEPT !.pc = "round"]
       ELSE /\ discovery' = [discovery EXCEPT !.pc = "raised"]
            /\ UNCHANGED <<game, data, possible_targets, entropy_cache,
                           optimal_first_guesses, pc, pending, best_guess,
                           best_expected_entropy, call, audit, file>>

\* a solver constructed on a small catalog with no file of opening guesses,
\* and a member t of the catalog that differs from every other member
InitTruthful ==
    /\ game \in Games
    /\ audit = FALSE
    /\ \E csv \in CsvFiles(game, NumRows) : Constructed(csv)
    /\ file = MissingFile
    /\ \E t \in Names(data) :
          /\ Distinguishable(data, t)
          /\ discovery = [pc |-> "start", target |-> t]

NextTruthful ==
    \/ TruthfulStart
    \/ TruthfulSuggest
    \/ \E guess \in DOMAIN pending :
          FirstGuessCompleted(guess) /\ UNCHANGED discovery
    \/ TruthfulRound

\* the loop keeps running and every worker task completes
SpecTruthful ==
    InitTruthful /\ [][NextTruthful]_vars /\ WF_vars(NextTruthful)

\* ------------------------------------------------------------------------
\* Properties

\* the identity field's feedback key
IdentityKey == Lower(target_column(game))

\* a state that Init, reset or apply_guess has returned into in a session that
\* is not audited: every catalog and candidate set that a session reaches occurs in
\* one, get_optimal_guess leaving the set as it is and an audited session
\* differing from the session on the reference catalog by its record only
CandidatesLeft ==
    pc = "idle" /\ call.op # "get_optimal_guess" /\ call.ret = None /\ ~audit

\* C1 (as stated): for every pair (g, t) of catalog ids, in every game, the
\* feedback simulated for guess g against target t is compatible with t, both
\* for the in-session pair and for the parallel-worker pair
C1_SelfConsistency ==
    \A g \in Names(data), t \in Names(data) :
        /\ _target_compatible_with_feedback(game, data, t, g,
               _simulate_feedback(game, data, g, t))
        /\ target_compatible_with_feedback_parallel(game, data, t, g,
               simulate_feedback_parallel(game, data, g, t))

\* C2 (as stated): for every candidate set, catalog guess g and feedback fb of
\* legal outcome tokens, the candidates apply_guess(g, fb) leaves are those of
\* the set that _target_compatible_with_feedback accepts for (g, fb)
C2_ApplyIsFilter ==
    CandidatesLeft =>
        \A g \in Names(data), fb \in LegalFeedbacks(game) :
            Ids(apply_guess(game, data, possible_targets, g, fb))
                = {c \in Ids(possible_targets) :
                      _target_compatible_with_feedback(game, data, c, g, fb)}

\* C3 (as stated): for every candidate set, member g or not, and every
\* feedback whose identity entry is Correct, apply_guess(g, feedback) leaves
\* exactly {g}
C3_NarrowsToGuess ==
    CandidatesLeft =>
        \A g \in Names(data), fb \in LegalFeedbacks(game) :
            Get(fb, IdentityKey) = "correct" =>
                Ids(apply_guess(game, data, possible_targets, g, fb)) = {g}

\* C3 (amended): for every candidate set S and every feedback whose identity
\* entry is Correct, apply_guess(g, feedback) leaves {g} when g is in S and
\* the empty set when it is not, whatever the other entries say
C3_NarrowsWithinCandidates ==
    CandidatesLeft =>
        \A g \in Names(data), fb \in LegalFeedbacks(game) :
            Get(fb, IdentityKey) = "correct" =>
                Ids(apply_guess(game, data, possible_targets, g, fb))
                    = Ids(possible_targets) \cap {g}

\* C3's case: apply_guess has run with identity Correct and an entry that the
\* guess itself contradicts, and left exactly the guess
C3_Witness ==
    /\ call.op = "apply_guess"
    /\ DOMAIN call.feedback = {IdentityKey, Lower(yes_or_no(game))}
    /\ call.feedback[IdentityKey] = "correct"
    /\ call.feedback[Lower(yes_or_no(game))] = "incorrect"
    /\ call.before > 1
    /\ Ids(possible_targets) = {call.guess}

\* the ordering the reduction is to follow: the catalog member that is least
\* by (score, catalog index), score[g] being the score of guess g
MinByScoreIndex(d, score) ==
    CHOOSE g \in Names(d) :
        \A h \in Names(d) \ {g} :
            \/ ScoreLess(score[g], score[h])
            \/ /\ ~ScoreLess(score[h], score[g])
               /\ IndexOf(d, g) < IndexOf(d, h)

\* C4 (as stated): two consecutive calls of get_optimal_guess, with nothing
\* between them, return the same guess id, for every size of the candidate set
C4_Determinism ==
    (call.op = "get_optimal_guess" /\ call.prev # NoReturn) => call.ret = call.prev

\* C5 (as stated): whatever the order in which the worker tasks complete,
\* _get_optimal_guess_parallel and _calculate_optimal_first_guesses return the
\* guess that is least by (score, catalog index)
C5_ReductionByScoreAndIndex ==
    [][(pc # "idle" /\ pc' = "idle") =>
          call'.ret = MinByScoreIndex(data,
              [g \in Names(data) |->
                  calculate_entropy_for_guess_parallel(game, data,
                      IF pc = "first_guess" THEN Names(data)
                      ELSE Ids(possible_targets), g)])]_vars

\* C6 (as stated): in a catalog of more than two members, with a candidate
\* set of two members, get_optimal_guess returns one of the two
C6_TwoCandidates ==
    (/\ call.op = "get_optimal_guess"
     /\ pc = "idle"
     /\ Len(data) > 2
     /\ Cardinality(possible_targets) = 2)
        => call.ret \in Ids(possible_targets)

RECURSIVE ApplyEach(_, _, _, _, _, _)
\* the entries of feedback applied by separate single-entry apply_guess
\* calls, in the order of keys
ApplyEach(g, d, pt, target_name, feedback, keys) ==
    IF keys = <<>> THEN pt
    ELSE ApplyEach(g, d,
             apply_guess(g, d, pt, target_name,
                         [k \in {Head(keys)} |-> feedback[k]]),
             target_name, feedback, Tail(keys))

\* the permutations of a set of keys
Orders(K) ==
    {s \in [1..Cardinality(K) -> K] :
        \A i \in DOMAIN s, j \in DOMAIN s : i # j => s[i] # s[j]}


\* C7 (as stated): for every candidate set, guess and feedback, the identity
\* entry included, applying the entries one at a time in any order leaves the
\* candidate set that one apply_guess with the whole feedback leaves
C7_OrderIndependence ==
    CandidatesLeft =>
        \A g \in Names(data), fb \in LegalFeedbacks(game) :
            \A keys \in Orders(DOMAIN fb) :
                ApplyEach(game, data, possible_targets, g, fb, keys)
                    = apply_guess(game, data, possible_targets, g, fb)

\* C7 (amended): when the identity entry of the feedback is not Correct,
\* applying the entries one at a time in any order leaves the candidate set
\* that one apply_guess with the whole feedback leaves; when it is Correct,
\* every such order leaves a subset of what the whole feedback leaves
C7_OrderIndependenceUnlessNarrowing ==
    CandidatesLeft =>
        \A g \in Names(data), fb \in LegalFeedbacks(game) :
            \A keys \in Orders(DOMAIN fb) :
                IF Get(fb, IdentityKey) = "correct"
                THEN ApplyEach(game, data, possible_targets, g, fb, keys)
                         \subseteq apply_guess(game, data, possible_targets, g, fb)
                ELSE ApplyEach(game, data, possible_targets, g, fb, keys)
                         = apply_guess(game, data, possible_targets, g, fb)

\* C7's case: apply_guess has run with two entries, of a yes/no and of an
\* orderable category, each of which alone removes a candidate the other keeps
C7_Witness ==
    /\ call.op = "apply_guess"
    /\ DOMAIN call.feedback = {Lower(yes_or_no(game)), Lower(orderable(game))}
    /\ call.before = Len(data)
    /\ Cardinality(possible_targets) = 1
    /\ \A k \in DOMAIN call.feedback :
           Cardinality(apply_guess(game, data, Copy(data), call.guess,
                                   [j \in {k} |-> call.feedback[j]])) = 2

\* C8: in every reachable state the candidate ids are catalog ids; a step of
\* apply_guess leaves a subset of the candidate set it started from; a step
\* of get_optimal_guess leaves the set as it was; the only step that adds a
\* candidate is reset, which leaves exactly the catalog
C8_Lifecycle ==
    /\ [](Ids(possible_targets) \subseteq Names(data))
    /\ [][/\ data' = data
          /\ call'.op = "apply_guess" => possible_targets' \subseteq possible_targets
          /\ (call'.op = "get_optimal_guess" \/ pc # "idle" \/ pc' # "idle")
                 => possible_targets' = possible_targets
          /\ ~(possible_targets' \subseteq possible_targets)
                 => /\ call'.op = "reset"
                    /\ possible_targets' = Copy(data)
                    /\ Ids(possible_targets') = Names(data)]_vars

\* C8's case: apply_guess has removed some but not all of the candidates
C8_Witness ==
    /\ call.op = "apply_guess"
    /\ possible_targets # {}
    /\ Cardinality(possible_targets) < call.before
    /\ call.before < Len(data)

\* the entries of a feedback whose key is the identity field or names a
\* classified category
Classified(g, fb) ==
    [k \in (DOMAIN fb) \ {UnknownKey} |-> fb[k]]

OrderedLess(g, a, b) ==
    IF orderable(g) = "Debut Arc"
    THEN _extract_arc_number(a) < _extract_arc_number(b)
    ELSE OrdLess(g, a, b)

C11_SingletonShortCircuit ==
    [][(Cardinality(possible_targets) = 1 /\ get_optimal_guess) =>
          /\ pc' = "idle"
          /\ call'.op = "get_optimal_guess"
          /\ {call'.ret} = Ids(possible_targets)
          /\ entropy_cache' = entropy_cache
          /\ optimal_first_guesses' = optimal_first_guesses
          /\ pending' = <<>>]_vars

\* C11's case: in a catalog of one member, with a stored opening guess that
\* is not that member, get_optimal_guess has returned the member
C11_Witness ==
    /\ Len(data) = 1
    /\ Cardinality(possible_targets) = 1
    /\ optimal_first_guesses = Unlisted
    /\ call.op = "get_optimal_guess"
    /\ call.ret = data[1].name

\* C12 (as stated): with no candidate left get_optimal_guess returns None, and
\* a discovery session whose feedback has left no candidate ends with the
\* no-match message and reports no catalog member as the final answer
C12_Contradiction ==
    /\ (pc = "idle" /\ call.op = "get_optimal_guess" /\ possible_targets = {})
           => call.ret = None
    /\ (discovery.pc = "done" /\ discovery.printed # IndexError
           /\ possible_targets = {})
           => /\ discovery.printed = "No targets match the feedback"
              /\ discovery.final_answer \notin Names(data)

\* the feedback keys that name a classified category
CategoryKeys(g) ==
    {Lower(yes_or_no(g)), Lower(orderable(g)), Lower(partial_matchable(g))}

\* C13 (as stated): apply_guess rejects a feedback in which a classified
\* category carries an outcome token that is not legal for its kind: the call
\* does not return normally
C13_InvalidTokenRejected ==
    (/\ call.op = "apply_guess"
     /\ audit
     /\ \E k \in DOMAIN call.feedback \cap CategoryKeys(game) :
            call.feedback[k] \notin LegalTokens(game, k))
        => call.ret # None

\* C14: apply_guess with a guess id that the catalog does not list raises,
\* whatever the feedback, and leaves the candidate set and the score cache
\* exactly as they were before the call
C14_UnknownGuessFailsFast ==
    [][(/\ pc = "idle"
        /\ call'.op = "apply_guess"
        /\ call'.guess \notin Names(data) \cup {None}) =>
              /\ call'.ret = IndexError
              /\ possible_targets' = possible_targets
              /\ entropy_cache' = entropy_cache]_vars

\* C14's case: apply_guess has raised for an unknown guess id on a narrowed
\* candidate set whose scores are in the cache
C14_Witness ==
    /\ call.op = "apply_guess"
    /\ call.ret = IndexError
    /\ entropy_cache # {}
    /\ Cardinality(possible_targets) < Len(data)

\* the file gives the game no opening guess: it is missing, unreadable, not
\* a JSON object, lacks the game's key or maps it to a value that is no string
NoPersistedGuess(f, g) ==
    \/ f.kind # "object"
    \/ g \notin DOMAIN f.entries
    \/ ~IsStr(f.entries[g])

\* a step of the session thread that is a call of get_optimal_guess, up to
\* its return or its dispatch
GetOptimalGuessStep ==
    pc = "idle" /\ (pc' # "idle" \/ call'.op = "get_optimal_guess")

\* the opening state of a catalog of more than one member, in which
\* get_optimal_guess calls get_optimal_first_guess
OpeningState == Cardinality(possible_targets) = Len(data) /\ Len(data) > 1

\* the score of a guess over the full catalog
OpeningScore(guess) ==
    calculate_entropy_for_guess_parallel(game, data, Names(data), guess)

\* C15: a solver constructed on a file that gives no opening guess has none
\* stored; its first call of get_optimal_first_guess (made by
\* get_optimal_guess in the opening state) scores every catalog member over
\* the full catalog, keeps and returns a member of least score and attempts
\* the write-back, whose failure changes neither; with a guess kept, a later
\* call returns it without a new computation and without touching the file
C15_FaultTolerantOpening ==
    /\ [](call.op = "init" /\ NoPersistedGuess(file, game)
             => optimal_first_guesses = None)
    /\ [][/\ (GetOptimalGuessStep /\ OpeningState /\ optimal_first_guesses = None)
              => /\ pc' = "first_guess"
                 /\ pending' = [guess \in Names(data) |-> OpeningScore(guess)]
          /\ (pc = "first_guess" /\ pc' = "idle")
              => /\ call'.ret \in Names(data)
                 /\ \A guess \in Names(data) :
                        ~ScoreLess(OpeningScore(guess), OpeningScore(call'.ret))
                 /\ optimal_first_guesses' = call'.ret
                 /\ file' \in {_save_optimal_first_guesses(file, game, call'.ret,
                                                           outcome) :
                                  outcome \in WriteOutcomes}
          /\ (GetOptimalGuessStep /\ OpeningState
                 /\ optimal_first_guesses \notin {None, ""})
              => /\ pc' = "idle"
                 /\ call'.ret = optimal_first_guesses
                 /\ optimal_first_guesses' = optimal_first_guesses
                 /\ file' = file]_vars

\* C15's case: on a file that cannot be read the opening guess was computed
\* and kept, the write-back has failed, and a second call has returned the
\* same guess
C15_Witness ==
    /\ file.kind = "unreadable"
    /\ call.op = "get_optimal_guess"
    /\ call.ret \in Names(data)
    /\ call.prev = call.ret
    /\ optimal_first_guesses = call.ret
    /\ OpeningState

\* C16 (as stated): a write that leaves a mapping in the file leaves the
\* game's guess id in it and, for every key of the mapping before that the
\* writer has not recomputed, the value it had; the writers are the solver's
\* write-back and the batch script
C16_WriteBackPreservesOthers ==
    [][(file' # file /\ file'.kind = "object") =>
          /\ game \in DOMAIN file'.entries
          /\ IsStr(file'.entries[game])
          /\ file.kind = "object" =>
                 \A k \in (DOMAIN file.entries)
                              \ (IF pc' # pc THEN {game} ELSE ScriptGames) :
                     /\ k \in DOMAIN file'.entries
                     /\ file'.entries[k] = file.entries[k]]_vars

\* C17: a call of get_optimal_guess on a candidate set that is not the full
\* catalog (an apply_guess has removed a candidate and no reset has followed)
\* neither reads nor computes the opening guess: the stored guess and the file
\* stay as they are, and the call returns the only candidate, or None, or
\* what the search over the candidates returns, or dispatches that search
C17_OpeningGuessOnlyAtOpening ==
    [][(GetOptimalGuessStep /\ Ids(possible_targets) # Names(data)) =>
          /\ pc' # "first_guess"
          /\ optimal_first_guesses' = optimal_first_guesses
          /\ file' = file
          /\ IF Cardinality(possible_targets) <= 1
             THEN {call'.ret} = IF possible_targets = {} THEN {None}
                                ELSE Ids(possible_targets)
             ELSE IF Cardinality(possible_targets) <= ParallelThreshold
             THEN call'.ret =
                      _get_optimal_guess_sequential(game, data, possible_targets,
                                                    entropy_cache).best_guess
             ELSE pc' = "parallel"]_vars

\* C17's case: with an opening guess stored and some but not all candidates
\* removed, get_optimal_guess has returned another guess than the stored one
C17_Witness ==
    /\ optimal_first_guesses \notin {None, ""}
    /\ call.op = "get_optimal_guess"
    /\ Cardinality(possible_targets) > 1
    /\ Cardinality(possible_targets) < Len(data)
    /\ call.ret # optimal_first_guesses

\* C18 (as stated): for every game, candidate set, member t of it and catalog
\* guess g, t is still a candidate after apply_guess(g, _simulate_feedback(g, t))
C18_TruthfulFeedbackKeepsAnswer ==
    CandidatesLeft =>
        \A g \in Names(data), t \in Ids(possible_targets) :
            t \in Ids(apply_guess(game, data, possible_targets, g,
                                  _simulate_feedback(game, data, g, t)))

\* a = b on two scores
ScoreEqual(a, b) == a[1] * b[2] = b[1] * a[2]

\* C19 (as stated): for every game, candidate set S and guess g, the worker
\* function calculate_entropy_for_guess_parallel returns for (g, S) the score
\* that _calculate_expected_entropy computes in-session for g on S
C19_ParallelEqualsSequential ==
    CandidatesLeft =>
        \A g \in Names(data) :
            ScoreEqual(calculate_entropy_for_guess_parallel(game, data,
                           Ids(possible_targets), g),
                       _calculate_expected_entropy(game, data,
                           Ids(possible_targets), g))

\* a value of the SetOverlap category read as the set of its tokens, after
\* the game's normalization
SetOfTokens(g, value) ==
    IF partial_matchable(g) = "Range"
    THEN normalize_range_values_for_comparison(value)
    ELSE TokenSet(value)

\* what set semantics makes of an outcome on the sets a (candidate) and b
\* (guess)
SetSemantics(token, a, b) ==
    CASE token = "correct" -> a = b
      [] token = "incorrect" -> a \cap b = {}
      [] token = "partial" -> a \cap b # {} /\ a # b

\* C20 (as stated): for every candidate and guess of the catalog and every
\* outcome on the SetOverlap category, both compatibility predicates accept
\* the candidate exactly when set semantics does on the two token sets
C20_SetOverlapSetSemantics ==
    \A t \in Names(data), g \in Names(data),
       token \in {"correct", "incorrect", "partial"} :
        LET fb == [k \in {Lower(partial_matchable(game))} |-> token]
            expected == SetSemantics(token,
                            SetOfTokens(game, RowOf(data, t).pm),
                            SetOfTokens(game, RowOf(data, g).pm))
        IN  /\ _target_compatible_with_feedback(game, data, t, g, fb) <=> expected
            /\ target_compatible_with_feedback_parallel(game, data, t, g, fb)
                   <=> expected

\* the outcome of the Debut Arc of a target against a guess by arc number:
\* Lower when the target's number is below the guess's
ArcOutcome(guess_value, target_value) ==
    IF _extract_arc_number(target_value) < _extract_arc_number(guess_value)
    THEN "lower"
    ELSE IF _extract_arc_number(target_value) > _extract_arc_number(guess_value)
    THEN "higher"
    ELSE "correct"

\* C21 (as stated): in OnePieceDle, for every guess g and candidate t, the
\* simulated Debut Arc outcome is the outcome by arc number, apply_guess with
\* a Debut Arc outcome keeps t exactly when it is the outcome by arc number,
\* and the compatibility predicate accepts t exactly then
C21_DebutArcByNumber ==
    (game = "OnePieceDle" /\ CandidatesLeft) =>
        \A g \in Names(data), t \in Ids(possible_targets) :
            LET expected == ArcOutcome(RowOf(data, g).ord, RowOf(data, t).ord)
            IN  /\ _simulate_feedback(game, data, g, t)["debut arc"] = expected
                /\ \A token \in {"lower", "higher", "correct"} :
                      LET fb == [k \in {"debut arc"} |-> token]
                      IN  /\ t \in Ids(apply_guess(game, data, possible_targets, g, fb))
                              <=> token = expected
                          /\ _target_compatible_with_feedback(game, data, t, g, fb)
                              <=> token = expected

\* the score _calculate_expected_entropy gives each catalog member over the
\* candidates left
SessionScores ==
    [g \in Names(data) |->
        _calculate_expected_entropy(game, data, Ids(possible_targets), g)]

\* the candidate set is searched sequentially and not as an opening
SequentialCase ==
    /\ Cardinality(possible_targets) >= 2
    /\ Cardinality(possible_targets) <= ParallelThreshold
    /\ Ids(possible_targets) # Names(data)

SessionCounts(g) ==
    [t \in Ids(possible_targets) |->
        _count_remaining_targets_after_feedback(game, data, g,
            _simulate_feedback(game, data, g, t), Ids(possible_targets))]

\* n(t) of a worker's scoring
WorkerCounts(g) ==
    [t \in Ids(possible_targets) |->
        count_remaining_targets_after_feedback_parallel(game, data, g,
            simulate_feedback_parallel(game, data, g, t), Ids(possible_targets))]

\* the score is the stated formula of the counts n over the candidates S: the
\* sum of (n(t) / |S|) * log2(n(t)) over the t with n(t) > 0, divided by the
\* number of those t; 0 when there is none; never negative; 0 exactly when
\* every n(t) is at most 1
IsStatedScore(score, n, S) ==
    LET counted == {t \in S : n[t] > 0}
        total == Sum([t \in counted |-> n[t] * Log2Scaled(n[t])], counted)
    IN  /\ score[2] > 0
        /\ score[1] >= 0
        /\ IF counted = {} THEN score[1] = 0
           ELSE score[1] * (Cardinality(S) * Cardinality(counted)) = total * score[2]
        /\ score[1] = 0 <=> \A t \in S : n[t] <= 1

\* C23: for every guess and non-empty candidate set, the score computed
\* in-session and the score a worker computes are each the stated formula of
\* their counts n(t)
C23_ScoreFormula ==
    (CandidatesLeft /\ possible_targets # {}) =>
        \A g \in Names(data) :
            /\ IsStatedScore(_calculate_expected_entropy(game, data,
                                 Ids(possible_targets), g),
                             SessionCounts(g), Ids(possible_targets))
            /\ IsStatedScore(calculate_entropy_for_guess_parallel(game, data,
                                 Ids(possible_targets), g),
                             WorkerCounts(g), Ids(possible_targets))

\* C23's case: a search over the candidates left has cached a score above 0
\* for one guess and the score 0 for another
C23_Witness ==
    /\ call.op = "get_optimal_guess"
    /\ Cardinality(possible_targets) >= 2
    /\ \E e \in entropy_cache : e[2] = Ids(possible_targets) /\ e[3][1] > 0
    /\ \E e \in entropy_cache : e[2] = Ids(possible_targets) /\ e[3][1] = 0

\* the score the live search computes anew for guess g on the candidates
\* left: by _calculate_expected_entropy in the sequential search, by a worker
\* above the threshold
FreshScore(g) ==
    IF Cardinality(possible_targets) <= ParallelThreshold
    THEN _calculate_expected_entropy(game, data, Ids(possible_targets), g)
    ELSE calculate_entropy_for_guess_parallel(game, data, Ids(possible_targets), g)

\* C24: the score cache is empty when apply_guess has returned (from the
\* identity-Correct branch or after the filters) and when reset has returned;
\* in every state that apply_guess, reset or get_optimal_guess has returned
\* into, every cache entry is keyed by a catalog guess and the ids of the
\* candidates left and holds the score computed anew for that guess and set
C24_CacheCoherence ==
    pc = "idle" =>
        /\ (call.op \in {"apply_guess", "reset"} /\ call.ret = None)
               => entropy_cache = {}
        /\ \A e \in entropy_cache :
               /\ e[1] \in Names(data)
               /\ e[2] = Ids(possible_targets)
               /\ e[3] = FreshScore(e[1])

\* C24's case: after feedback has removed a candidate, a search above the
\* threshold has cached the score of every catalog member
C24_Witness ==
    /\ pc = "idle"
    /\ call.op = "get_optimal_guess"
    /\ Cardinality(possible_targets) > ParallelThreshold
    /\ Ids(possible_targets) # Names(data)
    /\ {e[1] : e \in entropy_cache} = Names(data)

\* C25 (as stated): from the dispatch of the worker tasks of a live search to
\* the completion of the last of them, the candidate set and the score cache
\* are not written and the minimum is not reduced: a step that leaves a
\* dispatched task outstanding changes none of them
C25_NoWriteDuringScoring ==
    [][pc' = "parallel" =>
          /\ possible_targets' = possible_targets
          /\ entropy_cache' = entropy_cache
          /\ pc = "parallel" =>
                 /\ best_guess' = best_guess
                 /\ best_expected_entropy' = best_expected_entropy]_vars

\* a call of get_optimal_guess that runs the live search: more than one
\* candidate is left and the call is not answered from the opening guess,
\* stored or precomputed
LiveSearchStep ==
    /\ GetOptimalGuessStep
    /\ Cardinality(possible_targets) >= 2
    /\ Cardinality(possible_targets) = Len(data) => optimal_first_guesses = ""

\* C26: worker tasks of a live search exist only while more than 10
\* candidates are left; a live search over 10 candidates or fewer returns at
\* once, with no task created and the score of every catalog member computed
\* by _calculate_expected_entropy in the caller
C26_ParallelThreshold ==
    /\ [](pc = "parallel" => Cardinality(possible_targets) > ParallelThreshold)
    /\ [][(LiveSearchStep /\ Cardinality(possible_targets) <= ParallelThreshold) =>
              /\ pc' = "idle"
              /\ pending' = <<>>
              /\ entropy_cache' =
                     {<<g, Ids(possible_targets), SessionScores[g]>> : g \in Names(data)}]_vars

\* C26's case: in a catalog of more than 10 members, a live search over fewer
\* candidates than the threshold has returned with every score cached
C26_Witness ==
    /\ call.op = "get_optimal_guess"
    /\ pc = "idle"
    /\ Len(data) > ParallelThreshold
    /\ Cardinality(possible_targets) > 2
    /\ Cardinality(possible_targets) <= ParallelThreshold
    /\ {e[1] : e \in entropy_cache} = Names(data)

\* C27 (as stated): in a truthful session for a member t that differs from
\* every other member, the candidate set is never empty once the loop runs,
\* every round whose guess is not t leaves a proper subset of the candidate
\* set, and the candidate set eventually is {t}
C27_TruthfulSessionTerminates ==
    /\ [](discovery.pc # "start" => possible_targets # {})
    /\ [][(discovery.pc = "suggested" /\ discovery'.pc = "round"
              /\ call.ret # discovery.target)
             => /\ possible_targets' \subseteq possible_targets
                /\ possible_targets' # possible_targets]_vars
    /\ <>(discovery.pc # "start" /\ Ids(possible_targets) = {discovery.target})

\* C28 (as stated): whatever optimal_guesses.json holds, a guess that
\* get_optimal_guess returns is None or the id of a catalog member
C28_SuggestedGuessInCatalog ==
    (pc = "idle" /\ call.op = "get_optimal_guess")
        => call.ret \in Names(data) \cup {None}

\* C29 (as stated): every category that get_category_config asks for is the
\* lower-cased name of a category classified in _define_category_types, its
\* valid options are the outcome tokens of that category's kind, and no two
\* entries ask for the same category
C29_AskedCategoriesConstrain ==
    LET config == get_category_config(game)
    IN  /\ \A i \in DOMAIN config :
               /\ config[i].category \in CategoryKeys(game)
               /\ config[i].valid_options = LegalTokens(game, config[i].category)
        /\ \A i \in DOMAIN config, j \in DOMAIN config :
               config[i].category = config[j].category => i = j

\* C30 (as stated): in every reachable state of a Warframedle solver, the
\* freshly constructed one included, every candidate row carries the Release
\* value of the catalog row of the same id, the year of four characters
C30_CandidateRowsCarryCatalogValues ==
    game = "Warframedle" =>
        \A r \in possible_targets :
            /\ r.ord = RowOf(data, r.name).ord
            /\ Len(r.ord) <= 4

====
